---- MODULE Spec2Model ----
\* Model of the retry/recovery engine of ekrsw/dashboard:
\*   - SynchronizedExcelProcessor (src/src/excel_sync.py): start, _run, stop
\*   - async_retry                (src/src/scrapers/base_scraper.py)
\* The external application driver (win32com) is the environment: every driver
\* call either returns or raises, chosen nondeterministically (at most
\* fail_budget calls raise on one processor).  A call that raises has no
\* effect on the driven application: a handle whose Quit raised is still live,
\* a workbook whose Close raised is still open.
\* Every start() launches a thread of its own that runs _run; the position
\* and the locals of _run, and what is observed of a run, are kept per thread.
EXTENDS Integers, Sequences, FiniteSets, TLC

\* ---------------------------------------------------------------- bounds
MaxFiles == 2
MaxRetries == 2
MaxStopCalls == 2
MaxAttempts == 3
MaxFailures == 3   \* driver calls that raise in one run
MainFailures == 1  \* driver calls that raise in one run of main
MaxPool == 2       \* pool size of the executor
MaxSubmits == 5    \* blocking calls handed to the executor
MaxTimeout == 3    \* timeout argument of find_element
MaxInterval == 6   \* refresh_interval argument of the constructor
RestartFailures == 1 \* driver calls that raise on a processor started twice

\* ---------------------------------------------------------------- state
VARIABLES
    \* SynchronizedExcelProcessor fields
    max_retries,     \* self.max_retries
    path_exists,     \* path_exists[i]: os.path.exists(self.file_paths[i])
    stop_event,      \* self.stop_event.is_set()
    thread,          \* self.thread: 0 (None) or the thread launched last
    \* _run, per launched thread: position and locals
    pc, idx, retries, excel,
    \* the driven application, as the driver sees it
    apps,            \* apps[h]: [live, quits, books, by] of the h-th handle
    dispatch_calls,  \* number of DispatchEx calls
    calls,           \* calls[t].<op>[i]: calls of <op> for file i by run t
    fails,           \* fails[t]: kinds of calls that have raised in run t
    fail_budget,     \* number of driver calls that may still raise
    \* the thread that calls start() and stop()
    cpc,
    start_budget,    \* start() calls the caller still makes
    stop_calls, stop_returns, join_calls, stop_logs,
    joined,          \* the threads a stop() has joined
    stop_thread,     \* self.thread when the first stop() was entered
    stop_called_at, prev_stop,
    \* async_retry wrapper: configuration, position and observations
    r_max, r_sched, r_args, r_pc, r_attempt, r_calls, r_delays, r_result,
    r_cause, r_seen,
    r_name,          \* func.__name__ of the wrapped operation
    r_raised,        \* the failure the wrapped call has raised, if any
    \* my_task (main.py) and the BaseScraper it drives
    s_pc, s_step,    \* position in my_task, index of the current operation
    driver,          \* self.driver: "None" or "set"
    s_runs,          \* executions of the body of the operation invoked last
    s_started,       \* indices of the operations invoked so far, in order
    s_ok,            \* indices of the operations that have returned
    s_failed,        \* an operation has raised into my_task
    close_calls,     \* invocations of close_driver
    quit_calls,      \* outcome of each call of driver.quit, in order
    s_escaped,       \* an exception has left my_task
    \* main (main.py)
    m_pc,
    \* the executor behind run_in_executor
    b_pool,          \* max_workers
    b_call,          \* b_call[c]: "new", "queued", "running" or "done"
    \* find_element: arguments, position and observations
    f_timeout, f_sched, f_pc, f_i, f_lookups, f_sleeps, f_result,
    \* the settle wait of _run
    refresh_interval, \* self.refresh_interval
    settle_slept      \* duration of the last settle wait, 0 before the first

procVars == <<max_retries, path_exists, stop_event, thread>>
runVars == <<pc, idx, retries, excel>>
drvVars == <<apps, dispatch_calls, calls, fails, fail_budget>>
callerVars == <<cpc, start_budget, stop_calls, stop_returns, join_calls,
                stop_logs, joined, stop_thread, stop_called_at, prev_stop>>
retryVars == <<r_max, r_sched, r_args, r_pc, r_attempt, r_calls, r_delays,
               r_result, r_cause, r_seen, r_name, r_raised>>
sessVars == <<s_pc, s_step, driver, s_runs, s_started, s_ok, s_failed,
              close_calls, quit_calls, s_escaped>>
mainVars == <<m_pc>>
bridgeVars == <<b_pool, b_call>>
findVars == <<f_timeout, f_sched, f_pc, f_i, f_lookups, f_sleeps, f_result>>
settleVars == <<refresh_interval, settle_slept>>
moreVars == <<findVars, settleVars>>
otherVars == <<retryVars, sessVars, mainVars, bridgeVars, moreVars>>
vars == <<procVars, runVars, drvVars, callerVars, retryVars, sessVars,
          mainVars, bridgeVars, moreVars>>

\* settings.REFRESH_INTERVAL, the default of refresh_interval
REFRESH_INTERVAL == 5

NumFiles == Len(path_exists)
Files == 1..NumFiles

RECURSIVE SumTo(_, _)
SumTo(f, n) == IF n = 0 THEN 0 ELSE f[n] + SumTo(f, n - 1)
Total(f) == SumTo(f, NumFiles)

\* the _run threads start() has launched, in launch order
Threads == DOMAIN pc

\* Thread.is_alive() of the t-th thread
Alive(t) == pc[t] # "done"

\* self.thread.is_alive() (self.thread is None before the first start())
ThreadAlive == thread # 0 /\ Alive(thread)

\* the handles run t has constructed, and those of them that are live
AppsOf(t) == {h \in 1..Len(apps) : apps[h].by = t}
LiveApps(t) == {h \in AppsOf(t) : apps[h].live}

RECURSIVE SumQuits(_, _, _)
SumQuits(s, t, n) ==
    IF n = 0 THEN 0
    ELSE (IF s[n].by = t THEN s[n].quits ELSE 0) + SumQuits(s, t, n - 1)
TotalQuits(t) == SumQuits(apps, t, Len(apps))

Bump(self, op) == [calls EXCEPT ![self][op][idx[self]] = @ + 1]

\* the outcome of one driver call: it returns (ok) or raises
Outcome(ok) ==
    /\ ok \/ fail_budget > 0
    /\ fail_budget' = IF ok THEN fail_budget ELSE fail_budget - 1

\* calls counted per file; "synced" counts the attempts that ran to line 92
CallKinds == {"exists", "Open", "RefreshAll", "Save", "Close", "synced"}

NoCalls == [op \in CallKinds |-> [i \in Files |-> 0]]

\* ------------------------------------------------- SynchronizedExcelProcessor
\* a processor constructed for the paths pe with max_retries mr, driven by an
\* application of which at most fb calls raise, on which start() is called
\* sb times
ProcessorWith(mr, pe, fb, sb) ==
    /\ max_retries = mr
    /\ path_exists = pe
    /\ stop_event = FALSE
    /\ thread = 0
    /\ pc = <<>> /\ idx = <<>> /\ retries = <<>> /\ excel = <<>>
    /\ apps = <<>> /\ dispatch_calls = 0
    /\ calls = <<>> /\ fails = <<>>
    /\ fail_budget = fb
    /\ cpc = "idle" /\ start_budget = sb
    /\ stop_calls = 0 /\ stop_returns = 0
    /\ join_calls = 0 /\ stop_logs = 0 /\ joined = {}
    /\ stop_thread = 0 /\ stop_called_at = -1
    /\ prev_stop = FALSE

\* __init__, and what the caller then does: one start() on a processor of
\* up to MaxFiles files, or two start() calls on a processor of one file
InitProcessor ==
    \/ \E mr \in 0..MaxRetries :
         \E pe \in UNION {[1..n -> BOOLEAN] : n \in 0..MaxFiles} :
             ProcessorWith(mr, pe, MaxFailures, 1)
    \/ \E mr \in 0..MaxRetries :
         \E pe \in BOOLEAN :
             ProcessorWith(mr, <<pe>>, RestartFailures, 2)

\* the handle DispatchEx returns to run self
NewApp(self) == [live |-> TRUE, quits |-> 0, books |-> 0, by |-> self]

\* start() lines 44-45: a new Thread becomes self.thread and is started; its
\* _run has no local bound yet
Launch ==
    /\ thread' = Len(pc) + 1
    /\ pc' = Append(pc, "coinit")
    /\ idx' = Append(idx, 0)
    /\ retries' = Append(retries, 0)
    /\ excel' = Append(excel, 0)
    /\ calls' = Append(calls, NoCalls)
    /\ fails' = Append(fails, {})

\* start()
Start ==
    /\ cpc = "idle" /\ start_budget > 0
    /\ start_budget' = start_budget - 1
    /\ Launch
    /\ prev_stop' = FALSE
    /\ UNCHANGED <<max_retries, path_exists, stop_event, apps, dispatch_calls,
                   fail_budget, cpc, stop_calls, stop_returns, join_calls,
                   stop_logs, joined, stop_thread, stop_called_at,
                   otherVars>>

\* _run line 56: pythoncom.CoInitialize()
CoInitialize(self, ok) ==
    /\ pc[self] = "coinit"
    /\ Outcome(ok)
    /\ pc' = [pc EXCEPT ![self] = IF ok THEN "create" ELSE "outer_except"]
    /\ fails' = IF ok THEN fails
                ELSE [fails EXCEPT ![self] = @ \cup {"CoInitialize"}]
    /\ UNCHANGED <<procVars, idx, retries, excel, apps, dispatch_calls, calls,
                   callerVars, otherVars>>

\* the driver calls of _create_excel_app, by the names of the failures
CreateKinds == {"DispatchEx", "Visible", "DisplayAlerts"}

\* _create_excel_app returns ("ok") or one of its three driver calls raises
CreateOutcomes == {"ok"} \cup CreateKinds

\* _create_excel_app (lines 127-140) called by run self: DispatchEx, then the
\* property puts Visible and DisplayAlerts.  When DispatchEx raises there is
\* no handle; when a property put raises the handle exists, live, and is
\* bound to no name.
Construct(self, out) ==
    /\ Outcome(out = "ok")
    /\ dispatch_calls' = dispatch_calls + 1
    /\ apps' = IF out = "DispatchEx" THEN apps ELSE Append(apps, NewApp(self))
    /\ excel' = IF out = "ok" THEN [excel EXCEPT ![self] = Len(apps) + 1]
                ELSE excel
    /\ fails' = IF out = "ok" THEN fails
                ELSE [fails EXCEPT ![self] = @ \cup {out}]

\* _run line 60: excel = self._create_excel_app()
CreateApp(self, out) ==
    /\ pc[self] = "create"
    /\ Construct(self, out)
    /\ IF out = "ok"
       THEN /\ idx' = [idx EXCEPT ![self] = 1]
            /\ pc' = [pc EXCEPT ![self] = "loop"]
       ELSE /\ pc' = [pc EXCEPT ![self] = "outer_except"]
            /\ idx' = idx
    /\ UNCHANGED <<procVars, retries, calls, callerVars, otherVars>>

\* variant: the loop never looks at stop_event
LoopHead_NoStopCheck(self) ==
    /\ pc[self] = "loop"
    /\ pc' = [pc EXCEPT ![self] =
                 IF idx[self] > NumFiles THEN "final_quit" ELSE "exists"]
    /\ UNCHANGED <<procVars, idx, retries, excel, drvVars, callerVars, otherVars>>

\* _run lines 63-67: next element of file_paths, then the stop check
LoopHead(self) ==
    /\ pc[self] = "loop"
    /\ pc' = [pc EXCEPT ![self] =
                 IF idx[self] > NumFiles \/ stop_event
                 THEN "final_quit" ELSE "exists"]
    /\ UNCHANGED <<procVars, idx, retries, excel, drvVars, callerVars, otherVars>>

\* _run lines 70-75: existence check, retries = 0
ExistsCheck(self) ==
    /\ pc[self] = "exists"
    /\ calls' = Bump(self, "exists")
    /\ IF path_exists[idx[self]]
       THEN /\ retries' = [retries EXCEPT ![self] = 0]
            /\ pc' = [pc EXCEPT ![self] = "while"]
            /\ idx' = idx
       ELSE /\ idx' = [idx EXCEPT ![self] = @ + 1]
            /\ pc' = [pc EXCEPT ![self] = "loop"]
            /\ retries' = retries
    /\ UNCHANGED <<procVars, excel, apps, dispatch_calls, fails, fail_budget,
                   callerVars, otherVars>>

\* _run line 77: while retries < self.max_retries
WhileCheck(self) ==
    /\ pc[self] = "while"
    /\ IF retries[self] < max_retries
       THEN /\ pc' = [pc EXCEPT ![self] = "open"] /\ idx' = idx
       ELSE /\ pc' = [pc EXCEPT ![self] = "loop"]
            /\ idx' = [idx EXCEPT ![self] = @ + 1]
    /\ UNCHANGED <<procVars, retries, excel, drvVars, callerVars, otherVars>>

\* a driver call on the workbook of file idx: returns (-> next) or raises
DriverCall(self, op, at, next, ok) ==
    /\ pc[self] = at
    /\ Outcome(ok)
    /\ calls' = Bump(self, op)
    /\ IF ok
       THEN /\ pc' = [pc EXCEPT ![self] = next] /\ fails' = fails
       ELSE /\ pc' = [pc EXCEPT ![self] = "except"]
            /\ fails' = [fails EXCEPT ![self] = @ \cup {op}]
    /\ UNCHANGED <<procVars, idx, retries, excel, dispatch_calls, callerVars,
                   otherVars>>

\* _run line 80: workbook = excel.Workbooks.Open(file_path)
Open(self, ok) ==
    /\ DriverCall(self, "Open", "open", "refresh", ok)
    /\ apps' = IF ok THEN [apps EXCEPT ![excel[self]].books = @ + 1] ELSE apps

\* _run line 84: workbook.RefreshAll()
RefreshAll(self, ok) ==
    /\ DriverCall(self, "RefreshAll", "refresh", "sleep", ok)
    /\ apps' = apps

\* _run line 87: time.sleep(settings.REFRESH_INTERVAL)
SettleSleep(self) ==
    /\ pc[self] = "sleep"
    /\ pc' = [pc EXCEPT ![self] = "save"]
    /\ settle_slept' = REFRESH_INTERVAL
    /\ UNCHANGED <<procVars, idx, retries, excel, drvVars, callerVars,
                   retryVars, sessVars, mainVars, bridgeVars, findVars,
                   refresh_interval>>

\* _run line 90: workbook.Save()
Save(self, ok) ==
    /\ DriverCall(self, "Save", "save", "close", ok)
    /\ apps' = apps

\* _run lines 91-93: workbook.Close(); break
Close(self, ok) ==
    /\ pc[self] = "close"
    /\ Outcome(ok)
    /\ calls' = IF ok
                THEN [calls EXCEPT ![self]["Close"][idx[self]] = @ + 1,
                                   ![self]["synced"][idx[self]] = @ + 1]
                ELSE Bump(self, "Close")
    /\ IF ok
       THEN /\ apps' = [apps EXCEPT ![excel[self]].books = @ - 1]
            /\ pc' = [pc EXCEPT ![self] = "loop"]
            /\ idx' = [idx EXCEPT ![self] = @ + 1]
            /\ fails' = fails
       ELSE /\ apps' = apps
            /\ pc' = [pc EXCEPT ![self] = "except"]
            /\ idx' = idx
            /\ fails' = [fails EXCEPT ![self] = @ \cup {"Close"}]
    /\ UNCHANGED <<procVars, retries, excel, dispatch_calls, callerVars,
                   otherVars>>

\* variant: a failed attempt with attempts remaining restarts the list
Except_Restart(self) ==
    /\ pc[self] = "except"
    /\ retries' = [retries EXCEPT ![self] = @ + 1]
    /\ pc' = [pc EXCEPT ![self] =
                 IF retries[self] + 1 >= max_retries
                 THEN "quit_exhausted" ELSE "loop"]
    /\ idx' = [idx EXCEPT ![self] =
                  IF retries[self] + 1 >= max_retries THEN @ ELSE 1]
    /\ UNCHANGED <<procVars, excel, drvVars, callerVars, otherVars>>

\* variant: the handle is kept at exhaustion
Except_KeepHandle(self) ==
    /\ pc[self] = "except"
    /\ retries' = [retries EXCEPT ![self] = @ + 1]
    /\ pc' = [pc EXCEPT ![self] =
                 IF retries[self] + 1 >= max_retries
                 THEN "while" ELSE "retry_sleep"]
    /\ UNCHANGED <<procVars, idx, excel, drvVars, callerVars, otherVars>>

\* _run lines 95-99: retries += 1; exhausted?
Except(self) ==
    /\ pc[self] = "except"
    /\ retries' = [retries EXCEPT ![self] = @ + 1]
    /\ pc' = [pc EXCEPT ![self] =
                 IF retries[self] + 1 >= max_retries
                 THEN "quit_exhausted" ELSE "retry_sleep"]
    /\ UNCHANGED <<procVars, idx, excel, drvVars, callerVars, otherVars>>

\* variant: a raising Quit is not caught
Quit_Propagates(self, at, next, ok) ==
    /\ pc[self] = at
    /\ Outcome(ok)
    /\ apps' = [apps EXCEPT ![excel[self]].quits = @ + 1,
                            ![excel[self]].live = IF ok THEN FALSE ELSE @]
    /\ fails' = IF ok THEN fails ELSE [fails EXCEPT ![self] = @ \cup {"Quit"}]
    /\ pc' = [pc EXCEPT ![self] = IF ok THEN next ELSE "outer_except"]
    /\ UNCHANGED <<procVars, idx, retries, excel, dispatch_calls, calls,
                   callerVars, otherVars>>

\* excel.Quit(): tears the handle down, or raises and is only logged
Quit(self, at, next, ok) ==
    /\ pc[self] = at
    /\ Outcome(ok)
    /\ apps' = [apps EXCEPT ![excel[self]].quits = @ + 1,
                            ![excel[self]].live = IF ok THEN FALSE ELSE @]
    /\ fails' = IF ok THEN fails ELSE [fails EXCEPT ![self] = @ \cup {"Quit"}]
    /\ pc' = [pc EXCEPT ![self] = next]
    /\ UNCHANGED <<procVars, idx, retries, excel, dispatch_calls, calls,
                   callerVars, otherVars>>

\* _run lines 101-105: Quit at exhaustion
QuitExhausted(self, ok) == Quit(self, "quit_exhausted", "recreate", ok)

\* _run line 108: excel = self._create_excel_app(); a raise leaves the loops
Recreate(self, out) ==
    /\ pc[self] = "recreate"
    /\ Construct(self, out)
    /\ pc' = [pc EXCEPT ![self] = IF out = "ok" THEN "while" ELSE "outer_except"]
    /\ UNCHANGED <<procVars, idx, retries, calls, callerVars, otherVars>>

\* variant: every retry gets a fresh handle
RetrySleep_NewHandle(self) ==
    /\ pc[self] = "retry_sleep"
    /\ pc' = [pc EXCEPT ![self] = "while"]
    /\ apps' = Append(apps, NewApp(self))
    /\ excel' = [excel EXCEPT ![self] = Len(apps) + 1]
    /\ dispatch_calls' = dispatch_calls + 1
    /\ UNCHANGED <<procVars, idx, retries, calls, fails, fail_budget,
                   callerVars, otherVars>>

\* _run lines 110-111: time.sleep(self.retry_delay)
RetrySleep(self) ==
    /\ pc[self] = "retry_sleep"
    /\ pc' = [pc EXCEPT ![self] = "while"]
    /\ UNCHANGED <<procVars, idx, retries, excel, drvVars, callerVars, otherVars>>

\* variant: the run ends without the Quit of lines 114-118
FinalQuit_Skipped(self, ok) ==
    /\ pc[self] = "final_quit"
    /\ ok
    /\ pc' = [pc EXCEPT ![self] = "finally"]
    /\ UNCHANGED <<procVars, idx, retries, excel, drvVars, callerVars,
                   otherVars>>

\* _run lines 114-118: Quit after the loop
FinalQuit(self, ok) == Quit(self, "final_quit", "finally", ok)

\* _run lines 120-121: except Exception: log
OuterExcept(self) ==
    /\ pc[self] = "outer_except"
    /\ pc' = [pc EXCEPT ![self] = "finally"]
    /\ UNCHANGED <<procVars, idx, retries, excel, drvVars, callerVars, otherVars>>

\* _run lines 122-125: CoUninitialize; the thread ends (also when
\* CoUninitialize raises: nothing follows it)
Finally(self) ==
    /\ pc[self] = "finally"
    /\ pc' = [pc EXCEPT ![self] = "done"]
    /\ UNCHANGED <<procVars, idx, retries, excel, drvVars, callerVars, otherVars>>

\* the opens run t has made
Opens(t) == Total(calls[t].Open)

\* stop() is entered
StopCall ==
    /\ cpc = "idle" /\ stop_calls < MaxStopCalls
    /\ cpc' = "stop_set"
    /\ stop_calls' = stop_calls + 1
    /\ stop_thread' = IF stop_calls = 0 THEN thread ELSE stop_thread
    /\ stop_called_at' = IF stop_calls = 0 /\ thread # 0
                         THEN Opens(thread) ELSE stop_called_at
    /\ UNCHANGED <<procVars, runVars, drvVars, start_budget, stop_returns,
                   join_calls, stop_logs, joined, prev_stop,
                   otherVars>>

\* stop() line 148: self.stop_event.set()
StopSet ==
    /\ cpc = "stop_set"
    /\ stop_event' = TRUE
    /\ cpc' = "stop_check"
    /\ UNCHANGED <<max_retries, path_exists, thread, runVars, drvVars,
                   start_budget, stop_calls, stop_returns, join_calls,
                   stop_logs, joined, stop_thread, stop_called_at, prev_stop,
                   otherVars>>

\* variant: "if self.thread:" without the is_alive() test
StopCheck_NoAliveTest ==
    /\ cpc = "stop_check"
    /\ IF thread # 0
       THEN /\ cpc' = "stop_join"
            /\ join_calls' = join_calls + 1
            /\ UNCHANGED <<stop_returns, prev_stop>>
       ELSE /\ cpc' = "idle"
            /\ stop_returns' = stop_returns + 1
            /\ prev_stop' = TRUE
            /\ join_calls' = join_calls
    /\ UNCHANGED <<procVars, runVars, drvVars, start_budget, stop_calls,
                   stop_logs, joined, stop_thread, stop_called_at,
                   otherVars>>

\* stop() line 149: if self.thread and self.thread.is_alive()
StopCheck ==
    /\ cpc = "stop_check"
    /\ IF ThreadAlive
       THEN /\ cpc' = "stop_join"
            /\ join_calls' = join_calls + 1
            /\ UNCHANGED <<stop_returns, prev_stop>>
       ELSE /\ cpc' = "idle"
            /\ stop_returns' = stop_returns + 1
            /\ prev_stop' = TRUE
            /\ join_calls' = join_calls
    /\ UNCHANGED <<procVars, runVars, drvVars, start_budget, stop_calls,
                   stop_logs, joined, stop_thread, stop_called_at,
                   otherVars>>

\* stop() lines 150-151: join() returns once self.thread has ended; log
StopJoin ==
    /\ cpc = "stop_join"
    /\ ~ThreadAlive
    /\ joined' = joined \cup {thread}
    /\ stop_logs' = stop_logs + 1
    /\ cpc' = "idle"
    /\ stop_returns' = stop_returns + 1
    /\ prev_stop' = TRUE
    /\ UNCHANGED <<procVars, runVars, drvVars, start_budget, stop_calls,
                   join_calls, stop_thread, stop_called_at,
                   otherVars>>

\* ---------------------------------------------------------------- async_retry
Outcomes == {"ok", "retryable", "other"}
Args == {"a", "b"}

\* the value the operation returns from its k-th invocation on arguments a
OpResult(a, k) == <<a, k>>

OpNames == {"login", "fetch_data"}
NoFailure == [kind |-> "none"]

\* the exception raised by the k-th invocation of the operation
OpFailure(k) == [kind |-> r_sched[k], call |-> k]

\* ScraperError(f"Operation '{func.__name__}' failed after ... attempts") from e
Exhausted(name, e) == [kind |-> "ScraperError", op |-> name, cause |-> e]

InitRetry ==
    /\ r_max \in (-1)..MaxAttempts
    /\ r_sched \in [1..MaxAttempts -> Outcomes]
    /\ r_args \in Args
    /\ r_pc = "while"
    /\ r_attempt = 0 /\ r_calls = 0 /\ r_delays = 0
    /\ r_result = "none" /\ r_cause = 0 /\ r_seen = <<>>
    /\ r_name \in OpNames /\ r_raised = NoFailure

\* values of the variables of the part that is not running
IdleRetry ==
    /\ r_max = 0 /\ r_sched = <<>> /\ r_args = "a" /\ r_pc = "off"
    /\ r_attempt = 0 /\ r_calls = 0 /\ r_delays = 0
    /\ r_result = "none" /\ r_cause = 0 /\ r_seen = <<>>
    /\ r_name = "login" /\ r_raised = NoFailure

IdleProcessor ==
    /\ max_retries = 0 /\ path_exists = <<>> /\ stop_event = FALSE
    /\ thread = 0
    /\ pc = <<>> /\ idx = <<>> /\ retries = <<>> /\ excel = <<>>
    /\ apps = <<>> /\ dispatch_calls = 0
    /\ calls = <<>> /\ fails = <<>>
    /\ fail_budget = 0
    /\ cpc = "off" /\ start_budget = 0
    /\ stop_calls = 0 /\ stop_returns = 0
    /\ join_calls = 0 /\ stop_logs = 0 /\ joined = {}
    /\ stop_thread = 0 /\ stop_called_at = -1
    /\ prev_stop = FALSE

\* what the wrapper never touches; the operation it wraps may change sessVars
Workflow == <<"create_driver", "login", "call_template", "filter_by_date",
              "select_tabs", "filter_by_date">>

\* BaseScraper(...) has been constructed, my_task is about to run
InitSession ==
    /\ s_pc = "next" /\ s_step = 1
    /\ driver = "None"
    /\ s_runs = 0
    /\ s_started = <<>> /\ s_ok = {} /\ s_failed = FALSE
    /\ close_calls = 0 /\ quit_calls = <<>> /\ s_escaped = FALSE

IdleSession ==
    /\ s_pc = "off" /\ s_step = 1
    /\ driver = "None"
    /\ s_runs = 0
    /\ s_started = <<>> /\ s_ok = {} /\ s_failed = FALSE
    /\ close_calls = 0 /\ quit_calls = <<>> /\ s_escaped = FALSE

IdleMain == m_pc = "off"

IdleBridge == b_pool = 0 /\ b_call = <<>>

IdleFind ==
    /\ f_timeout = 0 /\ f_sched = <<>> /\ f_pc = "off" /\ f_i = 0
    /\ f_lookups = 0 /\ f_sleeps = 0 /\ f_result = 0

\* a processor constructed without a refresh_interval argument
DefaultSettle == refresh_interval = REFRESH_INTERVAL /\ settle_slept = 0

IdleMore == IdleFind /\ DefaultSettle

wrapperVars == <<procVars, runVars, drvVars, callerVars, mainVars, bridgeVars,
                 moreVars,
                 r_max, r_sched, r_args, r_name>>

\* wrapper line 36: while attempt < max_attempts; falling out returns None
RetryWhile ==
    /\ r_pc = "while"
    /\ r_pc' = IF r_attempt < r_max THEN "call" ELSE "returned_none"
    /\ UNCHANGED <<wrapperVars, r_attempt, r_calls, r_delays, r_result,
                   r_cause, r_seen, r_raised>>

\* variant: "except Exception" instead of "except exceptions"
RetryCall_CatchAll ==
    /\ r_pc = "call"
    /\ r_calls' = r_calls + 1
    /\ r_seen' = Append(r_seen, r_args)
    /\ LET out == r_sched[r_calls + 1] IN
       /\ r_pc' = IF out = "ok" THEN "returned" ELSE "except"
       /\ r_result' = IF out = "ok" THEN OpResult(r_args, r_calls + 1) ELSE r_result
       /\ r_raised' = r_raised
    /\ UNCHANGED <<wrapperVars, r_attempt, r_delays, r_cause>>

\* wrapper lines 37-39: return await func(*args, **kwargs), or it raises
RetryCall ==
    /\ r_pc = "call"
    /\ r_calls' = r_calls + 1
    /\ r_seen' = Append(r_seen, r_args)
    /\ LET out == r_sched[r_calls + 1] IN
       /\ r_pc' = CASE out = "ok" -> "returned"
                    [] out = "retryable" -> "except"
                    [] OTHER -> "raised_other"
       /\ r_result' = IF out = "ok" THEN OpResult(r_args, r_calls + 1) ELSE r_result
       /\ r_raised' = IF out \in {"ok", "retryable"} THEN r_raised
                      ELSE OpFailure(r_calls + 1)
    /\ UNCHANGED <<wrapperVars, r_attempt, r_delays, r_cause>>

\* variant: gives up one attempt early
RetryExcept_OneShort ==
    /\ r_pc = "except"
    /\ r_attempt' = r_attempt + 1
    /\ IF r_attempt + 1 >= r_max - 1
       THEN /\ r_pc' = "raised_exhausted" /\ r_cause' = r_calls
            /\ r_raised' = Exhausted(r_name, OpFailure(r_calls))
       ELSE /\ r_pc' = "sleep" /\ r_cause' = r_cause /\ r_raised' = r_raised
    /\ UNCHANGED <<wrapperVars, r_calls, r_delays, r_result, r_seen>>

\* variant: the delay is taken before the exhaustion test
RetryExcept_SleepFirst ==
    /\ r_pc = "except"
    /\ r_attempt' = r_attempt + 1
    /\ r_delays' = r_delays + 1
    /\ IF r_attempt + 1 >= r_max
       THEN /\ r_pc' = "raised_exhausted" /\ r_cause' = r_calls
            /\ r_raised' = Exhausted(r_name, OpFailure(r_calls))
       ELSE /\ r_pc' = "while" /\ r_cause' = r_cause /\ r_raised' = r_raised
    /\ UNCHANGED <<wrapperVars, r_calls, r_result, r_seen>>

\* wrapper lines 40-44: attempt += 1; raise ScraperError from e when exhausted
RetryExcept ==
    /\ r_pc = "except"
    /\ r_attempt' = r_attempt + 1
    /\ IF r_attempt + 1 >= r_max
       THEN /\ r_pc' = "raised_exhausted" /\ r_cause' = r_calls
            /\ r_raised' = Exhausted(r_name, OpFailure(r_calls))
       ELSE /\ r_pc' = "sleep" /\ r_cause' = r_cause /\ r_raised' = r_raised
    /\ UNCHANGED <<wrapperVars, r_calls, r_delays, r_result, r_seen>>

\* wrapper line 45: await asyncio.sleep(delay)
RetrySleepDelay ==
    /\ r_pc = "sleep"
    /\ r_delays' = r_delays + 1
    /\ r_pc' = "while"
    /\ UNCHANGED <<wrapperVars, r_attempt, r_calls, r_result, r_cause, r_seen,
                   r_raised>>

\* ---------------------------------------------------------------- my_task
\* max_attempts of the decorators of the session operations
SessionAttempts == 3

\* the exceptions argument of the decorator of each operation
Exceptions(op) ==
    IF op = "create_driver" THEN {"WebDriverException"}
    ELSE {"NoSuchElementException", "ScraperError"}

\* every body ends in "except Exception as e: raise ScraperError(...) from e";
\* the wrapper retries that failure only if ScraperError is in its exceptions
BodyFailure(op) ==
    IF "ScraperError" \in Exceptions(op) THEN "retryable" ELSE "other"

\* my_task calls the next operation: the decorated method starts its wrapper
TaskInvoke ==
    /\ s_pc = "next"
    /\ s_pc' = "await"
    /\ s_started' = Append(s_started, s_step)
    /\ r_name' = Workflow[s_step]
    /\ r_max' = SessionAttempts
    /\ r_sched' \in [1..MaxAttempts -> {"ok", BodyFailure(Workflow[s_step])}]
    /\ r_args' = "a"
    /\ r_pc' = "while"
    /\ r_attempt' = 0 /\ r_calls' = 0 /\ r_delays' = 0
    /\ r_result' = "none" /\ r_cause' = 0 /\ r_seen' = <<>>
    /\ r_raised' = NoFailure
    /\ s_runs' = 0
    /\ UNCHANGED <<procVars, runVars, drvVars, callerVars, mainVars, bridgeVars,
                   moreVars,
                   s_step, driver, s_ok, s_failed, close_calls, quit_calls,
                   s_escaped>>

\* one execution of the body of the current operation (the func of RetryCall);
\* create_driver closes a driver it finds, then sets self.driver before
\* implicitly_wait, so a failing body may leave a driver behind
Body ==
    /\ s_pc = "await"
    /\ s_runs' = s_runs + 1
    /\ IF Workflow[s_step] = "create_driver"
       THEN /\ close_calls' = IF driver = "set" THEN close_calls + 1 ELSE close_calls
            /\ IF driver = "set"
               THEN \E q \in BOOLEAN : quit_calls' = Append(quit_calls, q)
               ELSE quit_calls' = quit_calls
            /\ IF r_sched[r_calls + 1] = "ok"
               THEN driver' = "set"
               ELSE driver' \in {"None", "set"}
       ELSE UNCHANGED <<driver, close_calls, quit_calls>>
    /\ UNCHANGED <<s_pc, s_step, s_started, s_ok, s_failed, s_escaped>>

\* variant: each operation is awaited under its own try/except that goes on
TaskResume_GoOn ==
    /\ s_pc = "await"
    /\ r_pc \in {"returned", "returned_none", "raised_exhausted", "raised_other"}
    /\ s_ok' = IF r_pc \in {"returned", "returned_none"}
               THEN s_ok \cup {s_step} ELSE s_ok
    /\ s_failed' = (s_failed \/ r_pc \in {"raised_exhausted", "raised_other"})
    /\ IF s_step = Len(Workflow)
       THEN s_pc' = "finally" /\ s_step' = s_step
       ELSE s_pc' = "next" /\ s_step' = s_step + 1
    /\ UNCHANGED <<procVars, runVars, drvVars, callerVars, mainVars, bridgeVars,
                   moreVars,
                   retryVars, driver, s_runs, s_started, close_calls,
                   quit_calls, s_escaped>>

\* variant: try/finally without the except clause
TaskResume_NoExcept ==
    /\ s_pc = "await"
    /\ r_pc \in {"returned", "returned_none", "raised_exhausted", "raised_other"}
    /\ IF r_pc \in {"returned", "returned_none"}
       THEN /\ s_ok' = s_ok \cup {s_step}
            /\ s_failed' = s_failed /\ s_escaped' = s_escaped
            /\ IF s_step = Len(Workflow)
               THEN s_pc' = "finally" /\ s_step' = s_step
               ELSE s_pc' = "next" /\ s_step' = s_step + 1
       ELSE /\ s_pc' = "finally"
            /\ s_failed' = TRUE /\ s_escaped' = TRUE
            /\ UNCHANGED <<s_step, s_ok>>
    /\ UNCHANGED <<procVars, runVars, drvVars, callerVars, mainVars, bridgeVars,
                   moreVars,
                   retryVars, driver, s_runs, s_started, close_calls,
                   quit_calls>>

\* main.py lines 34-47: the awaited operation returns (my_task goes on, after
\* the settle sleep of lines 40 and 45) or raises into "except Exception"
TaskResume ==
    /\ s_pc = "await"
    /\ r_pc \in {"returned", "returned_none", "raised_exhausted", "raised_other"}
    /\ IF r_pc \in {"returned", "returned_none"}
       THEN /\ s_ok' = s_ok \cup {s_step}
            /\ s_failed' = s_failed
            /\ IF s_step = Len(Workflow)
               THEN s_pc' = "finally" /\ s_step' = s_step
               ELSE s_pc' = "next" /\ s_step' = s_step + 1
       ELSE /\ s_pc' = "except"
            /\ s_failed' = TRUE
            /\ UNCHANGED <<s_step, s_ok>>
    /\ UNCHANGED <<procVars, runVars, drvVars, callerVars, mainVars, bridgeVars,
                   moreVars,
                   retryVars, driver, s_runs, s_started, close_calls,
                   quit_calls, s_escaped>>

\* main.py lines 47-48: except Exception: print
TaskExcept ==
    /\ s_pc = "except"
    /\ s_pc' = "finally"
    /\ UNCHANGED <<procVars, runVars, drvVars, callerVars, mainVars, bridgeVars,
                   moreVars,
                   retryVars, s_step, driver, s_runs, s_started, s_ok,
                   s_failed, close_calls, quit_calls, s_escaped>>

\* main.py lines 50-51 and close_driver: driver.quit() returns or raises (the
\* failure is logged), self.driver = None; my_task returns
TaskFinally(ok) ==
    /\ s_pc = "finally"
    /\ close_calls' = close_calls + 1
    /\ quit_calls' = IF driver = "set" THEN Append(quit_calls, ok) ELSE quit_calls
    /\ ok \/ driver = "set"
    /\ driver' = "None"
    /\ s_pc' = "done"
    /\ UNCHANGED <<procVars, runVars, drvVars, callerVars, mainVars, bridgeVars,
                   moreVars,
                   retryVars, s_step, s_runs, s_started, s_ok, s_failed,
                   s_escaped>>

\* ---------------------------------------------------------------- main
\* the excel_files list of main
MainFiles == 3

\* settings.SYNC_MAX_RETRIES, the default of max_retries
SYNC_MAX_RETRIES == 5

\* main before line 62: the three files exist or not and at most
\* MainFailures driver calls raise, or one of the files exists and as many
\* driver calls may raise as that file has attempts
InitMain ==
    /\ m_pc = "init"
    /\ \/ \E pe \in [1..MainFiles -> BOOLEAN] :
              ProcessorWith(SYNC_MAX_RETRIES, pe, MainFailures, 1)
       \/ \E f \in 1..MainFiles :
              ProcessorWith(SYNC_MAX_RETRIES, [i \in 1..MainFiles |-> i = f],
                            SYNC_MAX_RETRIES, 1)

\* lines 62-63: SynchronizedExcelProcessor(excel_files).start()
MainStart ==
    /\ m_pc = "init"
    /\ m_pc' = "gather"
    /\ start_budget' = start_budget - 1
    /\ Launch
    /\ UNCHANGED <<max_retries, path_exists, stop_event, apps, dispatch_calls,
                   fail_budget, cpc, stop_calls, stop_returns, join_calls,
                   stop_logs, joined, stop_thread, stop_called_at,
                   prev_stop, retryVars, sessVars, bridgeVars,
                   moreVars>>

\* lines 66-69: asyncio.gather(my_task()) schedules the session workflow
MainGather ==
    /\ m_pc = "gather"
    /\ m_pc' = "await"
    /\ s_pc' = "next"
    /\ UNCHANGED <<procVars, runVars, drvVars, callerVars, retryVars,
                   bridgeVars, moreVars, s_step, driver, s_runs, s_started, s_ok,
                   s_failed, close_calls, quit_calls, s_escaped>>

\* the await of line 66 returns when my_task has returned
MainJoinTask ==
    /\ m_pc = "await"
    /\ s_pc = "done"
    /\ m_pc' = "poll"
    /\ UNCHANGED <<procVars, runVars, drvVars, callerVars, retryVars,
                   sessVars, bridgeVars, moreVars>>

\* variant: the loop of line 72 is left after its first test
MainPoll_Once ==
    /\ m_pc = "poll"
    /\ m_pc' = "downstream"
    /\ UNCHANGED <<procVars, runVars, drvVars, callerVars, retryVars,
                   sessVars, bridgeVars, moreVars>>

\* variant: "while excel_processor.thread:" without the is_alive() test
MainPoll_ThreadSet ==
    /\ m_pc = "poll"
    /\ m_pc' = IF thread # 0 THEN "sleep" ELSE "downstream"
    /\ UNCHANGED <<procVars, runVars, drvVars, callerVars, retryVars,
                   sessVars, bridgeVars, moreVars>>

\* line 72: while excel_processor.thread.is_alive()
MainPoll ==
    /\ m_pc = "poll"
    /\ m_pc' = IF ThreadAlive THEN "sleep" ELSE "downstream"
    /\ UNCHANGED <<procVars, runVars, drvVars, callerVars, retryVars,
                   sessVars, bridgeVars, moreVars>>

\* line 74: await asyncio.sleep(1)
MainSleep ==
    /\ m_pc = "sleep"
    /\ m_pc' = "poll"
    /\ UNCHANGED <<procVars, runVars, drvVars, callerVars, retryVars,
                   sessVars, bridgeVars, moreVars>>

\* ---------------------------------------------------------------- executor
\* BaseScraper.__init__: the executor passed in, or a pool of its own; b_call
\* are the blocking calls the session will hand to it
InitBridge ==
    /\ b_pool \in 1..MaxPool
    /\ b_call \in {[c \in 1..n |-> "new"] : n \in 1..MaxSubmits}

Running == {c \in DOMAIN b_call : b_call[c] = "running"}

\* loop.run_in_executor(self.executor, fn): the call is queued
BridgeSubmit(c) ==
    /\ b_call[c] = "new"
    /\ b_call' = [b_call EXCEPT ![c] = "queued"]
    /\ UNCHANGED <<procVars, runVars, drvVars, callerVars, retryVars,
                   sessVars, mainVars, moreVars, b_pool>>

\* variant: a thread per call
BridgeStart_Unbounded(c) ==
    /\ b_call[c] = "queued"
    /\ b_call' = [b_call EXCEPT ![c] = "running"]
    /\ UNCHANGED <<procVars, runVars, drvVars, callerVars, retryVars,
                   sessVars, mainVars, moreVars, b_pool>>

\* a pool thread takes a queued call; the pool has at most b_pool threads
BridgeStart(c) ==
    /\ b_call[c] = "queued"
    /\ Cardinality(Running) < b_pool
    /\ b_call' = [b_call EXCEPT ![c] = "running"]
    /\ UNCHANGED <<procVars, runVars, drvVars, callerVars, retryVars,
                   sessVars, mainVars, moreVars, b_pool>>

\* the blocking call returns; its pool thread is free again
BridgeFinish(c) ==
    /\ b_call[c] = "running"
    /\ b_call' = [b_call EXCEPT ![c] = "done"]
    /\ UNCHANGED <<procVars, runVars, drvVars, callerVars, retryVars,
                   sessVars, mainVars, moreVars, b_pool>>

\* ---------------------------------------------------------------- find_element
\* what one driver.find_element call does: it returns the element, raises
\* NoSuchElementException, returns a falsy value, or raises something else
LookupOutcomes == {"element", "NoSuchElement", "falsy", "other"}

\* find_element(by, value, timeout) is called
InitFind ==
    /\ f_timeout \in 0..MaxTimeout
    /\ f_sched \in [1..MaxTimeout -> LookupOutcomes]
    /\ f_pc = "for" /\ f_i = 0
    /\ f_lookups = 0 /\ f_sleeps = 0 /\ f_result = 0

\* variant: range(timeout - 1)
FindFor_OneShort ==
    /\ f_pc = "for"
    /\ f_pc' = IF f_i < f_timeout - 1 THEN "lookup" ELSE "raised_not_found"
    /\ UNCHANGED <<procVars, runVars, drvVars, callerVars, retryVars, sessVars,
                   mainVars, bridgeVars, settleVars, f_timeout,
                   f_sched, f_i, f_lookups, f_sleeps, f_result>>

\* line 222: for attempt in range(timeout); lines 229-230 after the loop
FindFor ==
    /\ f_pc = "for"
    /\ f_pc' = IF f_i < f_timeout THEN "lookup" ELSE "raised_not_found"
    /\ UNCHANGED <<procVars, runVars, drvVars, callerVars, retryVars, sessVars,
                   mainVars, bridgeVars, settleVars, f_timeout,
                   f_sched, f_i, f_lookups, f_sleeps, f_result>>

\* lines 223-227: the lookup; f_result is the number of the lookup whose
\* element is returned
FindLookup ==
    /\ f_pc = "lookup"
    /\ f_lookups' = f_lookups + 1
    /\ LET out == f_sched[f_i + 1] IN
       /\ f_pc' = CASE out = "element" -> "returned"
                    [] out = "NoSuchElement" -> "sleep"
                    [] out = "falsy" -> "for"
                    [] OTHER -> "raised_other"
       /\ f_result' = IF out = "element" THEN f_i + 1 ELSE f_result
       /\ f_i' = IF out = "falsy" THEN f_i + 1 ELSE f_i
    /\ UNCHANGED <<procVars, runVars, drvVars, callerVars, retryVars, sessVars,
                   mainVars, bridgeVars, settleVars, f_timeout,
                   f_sched, f_sleeps>>

\* line 228: await asyncio.sleep(1), then the next iteration
FindSleep ==
    /\ f_pc = "sleep"
    /\ f_sleeps' = f_sleeps + 1
    /\ f_i' = f_i + 1
    /\ f_pc' = "for"
    /\ UNCHANGED <<procVars, runVars, drvVars, callerVars, retryVars, sessVars,
                   mainVars, bridgeVars, settleVars, f_timeout,
                   f_sched, f_lookups, f_result>>

\* ---------------------------------------------------------------- specifications
Init ==
    /\ InitProcessor /\ IdleRetry /\ IdleSession /\ IdleMain /\ IdleBridge
    /\ IdleMore

\* every step of _run in thread self
WorkerRun(self) ==
    \/ \E ok \in BOOLEAN : CoInitialize(self, ok)
    \/ \E out \in CreateOutcomes : CreateApp(self, out)
    \/ LoopHead(self)
    \/ ExistsCheck(self)
    \/ WhileCheck(self)
    \/ \E ok \in BOOLEAN : Open(self, ok)
    \/ \E ok \in BOOLEAN : RefreshAll(self, ok)
    \/ SettleSleep(self)
    \/ \E ok \in BOOLEAN : Save(self, ok)
    \/ \E ok \in BOOLEAN : Close(self, ok)
    \/ Except(self)
    \/ \E ok \in BOOLEAN : QuitExhausted(self, ok)
    \/ \E out \in CreateOutcomes : Recreate(self, out)
    \/ RetrySleep(self)
    \/ \E ok \in BOOLEAN : FinalQuit(self, ok)
    \/ OuterExcept(self)
    \/ Finally(self)

Next ==
    \/ Start
    \/ \E self \in Threads : WorkerRun(self)
    \/ StopCall
    \/ StopSet
    \/ StopCheck
    \/ StopJoin

Spec == Init /\ [][Next]_vars

InitR ==
    /\ IdleProcessor /\ InitRetry /\ IdleSession /\ IdleMain /\ IdleBridge
    /\ IdleMore

NextR ==
    \/ RetryWhile /\ UNCHANGED sessVars
    \/ RetryCall /\ UNCHANGED sessVars
    \/ RetryExcept /\ UNCHANGED sessVars
    \/ RetrySleepDelay /\ UNCHANGED sessVars

SpecRetry == InitR /\ [][NextR]_vars

InitS ==
    /\ IdleProcessor /\ IdleRetry /\ InitSession /\ IdleMain /\ IdleBridge
    /\ IdleMore

NextS ==
    \/ TaskInvoke
    \/ RetryWhile /\ UNCHANGED sessVars
    \/ RetryCall /\ Body
    \/ RetryExcept /\ UNCHANGED sessVars
    \/ RetrySleepDelay /\ UNCHANGED sessVars
    \/ TaskResume
    \/ TaskExcept
    \/ \E ok \in BOOLEAN : TaskFinally(ok)

SpecSession == InitS /\ [][NextS]_vars

InitM ==
    /\ InitMain /\ IdleRetry /\ IdleSession /\ IdleBridge
    /\ IdleMore

\* main, the worker thread it starts and the session workflow it awaits
NextM ==
    \/ MainStart
    \/ MainGather
    \/ MainJoinTask
    \/ MainPoll
    \/ MainSleep
    \/ \E self \in Threads : WorkerRun(self)
    \/ NextS

SpecMain == InitM /\ [][NextM]_vars

InitB ==
    /\ IdleProcessor /\ IdleRetry /\ IdleSession /\ IdleMain /\ InitBridge
    /\ IdleMore

NextB ==
    \/ \E c \in DOMAIN b_call : BridgeSubmit(c)
    \/ \E c \in DOMAIN b_call : BridgeStart(c)
    \/ \E c \in DOMAIN b_call : BridgeFinish(c)

\* a free pool thread takes some queued call, and every running call returns
FairB ==
    /\ WF_vars(\E c \in DOMAIN b_call : BridgeStart(c))
    /\ \A c \in 1..MaxSubmits : WF_vars(c \in DOMAIN b_call /\ BridgeFinish(c))

SpecBridge == InitB /\ [][NextB]_vars /\ FairB

\* the run over [A (exists), B (missing), C (exists)] with the default
\* max_retries, in which as many driver calls may raise as C has attempts
InitScenario ==
    /\ ProcessorWith(SYNC_MAX_RETRIES, <<TRUE, FALSE, TRUE>>,
                     SYNC_MAX_RETRIES, 1)
    /\ IdleRetry /\ IdleSession /\ IdleMain /\ IdleBridge /\ IdleMore

NextScenario ==
    \/ Start
    \/ \E self \in Threads : WorkerRun(self)

SpecScenario == InitScenario /\ [][NextScenario]_vars

\* the worker and the wrapper, each on its own
InitWR == Init \/ InitR

NextWR == Next \/ NextR

SpecWR == InitWR /\ [][NextWR]_vars

\* a processor driven by one start() and by stop(), of which at most
\* MainFailures driver calls raise
InitTermCaller ==
    /\ \E mr \in 0..MaxRetries :
         \E pe \in UNION {[1..n -> BOOLEAN] : n \in 0..MaxFiles} :
             ProcessorWith(mr, pe, MainFailures, 1)
    /\ IdleRetry /\ IdleSession /\ IdleMain /\ IdleBridge /\ IdleMore

\* the run of main, with an application of which every call returns
InitTermMain ==
    /\ m_pc = "init"
    /\ \E pe \in [1..MainFiles -> BOOLEAN] :
           ProcessorWith(SYNC_MAX_RETRIES, pe, 0, 1)
    /\ IdleRetry /\ IdleSession /\ IdleBridge /\ IdleMore

InitTerm == InitTermCaller \/ InitTermMain

\* the steps of a stop() that has been entered
StopRun == StopSet \/ StopCheck \/ StopJoin

\* the steps of main
MainRun == MainStart \/ MainGather \/ MainJoinTask \/ MainPoll \/ MainSleep

NextTerm ==
    \/ m_pc = "off" /\ Next
    \/ m_pc # "off" /\ NextM

\* the worker thread and the thread inside stop() are scheduled, every
\* driver call and every sleep returns; the event loop runs its ready
\* coroutines
FairTerm ==
    /\ WF_vars(\E self \in Threads : WorkerRun(self))
    /\ WF_vars(StopRun)
    /\ WF_vars(MainRun)
    /\ WF_vars(NextS)

SpecTerm == InitTerm /\ [][NextTerm]_vars /\ FairTerm

InitF ==
    /\ IdleProcessor /\ IdleRetry /\ IdleSession /\ IdleMain /\ IdleBridge
    /\ InitFind /\ DefaultSettle

NextF == FindFor \/ FindLookup \/ FindSleep

SpecFind == InitF /\ [][NextF]_vars

\* a processor constructed with a refresh_interval of its own, started once
InitSettle ==
    /\ \E mr \in 0..MaxRetries :
         \E pe \in UNION {[1..n -> BOOLEAN] : n \in 0..MaxFiles} :
             ProcessorWith(mr, pe, MainFailures, 1)
    /\ refresh_interval \in 1..MaxInterval
    /\ settle_slept = 0
    /\ IdleRetry /\ IdleSession /\ IdleMain /\ IdleBridge
    /\ IdleFind

NextSettle ==
    \/ Start
    \/ \E self \in Threads : WorkerRun(self)

SpecSettle == InitSettle /\ [][NextSettle]_vars

\* ---------------------------------------------------------------- properties
AllExist == \A i \in Files : path_exists[i]
RunEnded(t) == pc[t] = "done"

\* the calls that build a handle (lines 56-60 and 108), by failure name
SetupKinds == CreateKinds \cup {"CoInitialize"}

\* no call that builds a handle has raised in run t
NoSetupFailure(t) == fails[t] \cap SetupKinds = {}

\* C1: in every reachable state of a Worker run at most one ApplicationHandle
\* is live, also when Quit fails before the fresh handle is constructed.
C1_AtMostOneLiveApp == \A t \in Threads : Cardinality(LiveApps(t)) <= 1

\* C2: whenever the Worker starts a new open on the current ApplicationHandle,
\* every ResourceHandle opened through that handle before has been closed.
C2_NoOpenBookAtOpen ==
    \A t \in Threads : pc[t] = "open" => apps[excel[t]].books = 0

\* C3: with StopSignal never set (and at least one attempt allowed per
\* resource), a run that has acquired its first ApplicationHandle ends only
\* after every existing resource got at least one open attempt, whatever
\* driver calls failed.
C3_EveryResourceAttempted ==
    \A t \in Threads :
        (RunEnded(t) /\ ~stop_event /\ max_retries >= 1 /\ excel[t] # 0)
            => \A i \in Files : path_exists[i] => calls[t].Open[i] >= 1

\* C4: for every max_retries (0 included), a run over n existing resources
\* whose every attempt fails makes exactly max_retries attempts on each,
\* constructs exactly 1+n ApplicationHandles (one recreation per resource) and,
\* when the failures are those of RefreshAll, performs n*max_retries refreshes.
C4_OneRecreationPerFailedResource ==
    \A t \in Threads :
        (RunEnded(t) /\ ~stop_event /\ AllExist /\ Total(calls[t].synced) = 0
           /\ NoSetupFailure(t) /\ "Quit" \notin fails[t])
            => /\ \A i \in Files : calls[t].Open[i] = max_retries
               /\ Cardinality(AppsOf(t)) = 1 + NumFiles
               /\ TotalQuits(t) = 1 + NumFiles
               /\ (fails[t] \subseteq {"RefreshAll"}
                     => Total(calls[t].RefreshAll) = NumFiles * max_retries)

\* C5: with StopSignal never set and all driver calls succeeding, the
\* existence check is made on every entry, exactly the existing resources are
\* opened, refreshed, saved and closed (once each), no missing resource is
\* opened, and the ApplicationHandle is never replaced.
C5_ExistingOpenedMissingSkipped ==
    \A t \in Threads :
        (RunEnded(t) /\ ~stop_event /\ fails[t] = {})
            => /\ \A i \in Files :
                    /\ calls[t].exists[i] = 1
                    /\ LET c == IF path_exists[i] THEN 1 ELSE 0 IN
                         /\ calls[t].Open[i] = c /\ calls[t].RefreshAll[i] = c
                         /\ calls[t].Save[i] = c /\ calls[t].Close[i] = c
               /\ AppsOf(t) = {excel[t]}

\* C6: when every resource exists and every driver call succeeds, a run
\* (for every max_retries >= 0) constructs the ApplicationHandle once, opens,
\* refreshes, saves and closes every resource exactly once and quits once.
C6_AllProcessedOnce ==
    \A t \in Threads :
        (RunEnded(t) /\ ~stop_event /\ fails[t] = {} /\ AllExist)
            => /\ Cardinality(AppsOf(t)) = 1
               /\ TotalQuits(t) = 1
               /\ \A i \in Files :
                    /\ calls[t].Open[i] = 1 /\ calls[t].RefreshAll[i] = 1
                    /\ calls[t].Save[i] = 1 /\ calls[t].Close[i] = 1

\* The Worker is at, or past, a stop check that sees StopSignal set.
StopObserved(t) ==
    stop_event /\ pc[t] \in {"loop", "final_quit", "finally", "done"}

\* C7: if StopSignal is set when the Worker reaches the stop check of
\* resource i, then from there on no resource is existence-checked or opened
\* and no counter of the resources already completed changes.
C7_StopSkipsTheRest ==
    [][\A t \in Threads :
           StopObserved(t) =>
               (StopObserved(t)' /\ calls'[t] = calls[t] /\ idx'[t] = idx[t])]_vars

C7_Witness ==
    /\ 1 \in Threads
    /\ stop_event /\ pc[1] = "final_quit"
    /\ idx[1] >= 2 /\ idx[1] <= NumFiles
    /\ calls[1].synced[1] = 1 /\ calls[1].Open[idx[1]] = 0

\* C8: stop() called from another thread once the Worker has begun opening
\* the first resource, every driver call returning (the driver of
\* test_run_with_stop_event): when stop() has returned, only the first
\* resource was opened (total open count 1), the ApplicationHandle got
\* exactly one Quit, and StopSignal is set.
C8_OnlyFirstOpened ==
    (stop_returns >= 1 /\ stop_called_at = 1 /\ fails[stop_thread] = {})
        => /\ Opens(stop_thread) = 1
           /\ TotalQuits(stop_thread) = 1
           /\ stop_event

\* C9: a stop() that follows a stop() (no start() in between) changes
\* nothing: StopSignal stays set, the thread stays finished (or never
\* started), no join and no 'stopped' log record is added.
C9_StopIdempotent ==
    /\ [](prev_stop => (stop_event /\ ~ThreadAlive))
    /\ [][(prev_stop /\ prev_stop')
            => (/\ join_calls' = join_calls
                /\ stop_logs' = stop_logs
                /\ stop_event' = stop_event
                /\ thread' = thread
                /\ joined' = joined)]_vars

C9_Witness ==
    /\ prev_stop /\ stop_returns = 2 /\ cpc = "idle"
    /\ thread # 0 /\ ~ThreadAlive /\ join_calls = 1 /\ stop_logs = 1

RetryEnded == r_pc \in {"returned", "returned_none", "raised_exhausted", "raised_other"}

\* the operation fails (retryably) on invocations 1..k-1 and succeeds on the k-th
SucceedsAt(k) ==
    /\ r_sched[k] = "ok"
    /\ \A j \in 1..(k - 1) : r_sched[j] = "retryable"

\* C10: with max_attempts = m >= 1 and an operation that raises a retryable
\* failure on attempts 1..k-1 and succeeds on attempt k <= m, the wrapped call
\* returns the result of the k-th invocation, after exactly k invocations
\* with the same inputs and exactly k-1 delays.
C10_SuccessAtK ==
    \A k \in 1..MaxAttempts :
        (r_max >= 1 /\ k <= r_max /\ SucceedsAt(k))
            => /\ r_calls <= k /\ r_delays <= k - 1
               /\ r_pc # "returned_none"
               /\ RetryEnded
                    => /\ r_pc = "returned"
                       /\ r_result = OpResult(r_args, k)
                       /\ r_calls = k
                       /\ r_delays = k - 1
                       /\ r_seen = [j \in 1..k |-> r_args]

C10_Witness ==
    /\ r_max = 3 /\ SucceedsAt(3)
    /\ r_pc = "returned" /\ r_calls = 3 /\ r_delays = 2

\* C11: with max_attempts = m >= 1 and an operation that raises a retryable
\* failure on every attempt, the wrapped call invokes the operation exactly m
\* times, delays exactly m-1 times, and raises one ScraperError that names
\* the operation and whose cause is the failure of the m-th invocation.
AlwaysRetryable == \A j \in 1..MaxAttempts : r_sched[j] = "retryable"

C11_ExhaustedAfterM ==
    (r_max >= 1 /\ AlwaysRetryable)
        => /\ r_calls <= r_max /\ r_delays <= r_max - 1
           /\ r_pc \notin {"returned", "returned_none", "raised_other"}
           /\ (r_raised # NoFailure) = (r_pc = "raised_exhausted")
           /\ r_pc = "raised_exhausted"
                => /\ r_calls = r_max
                   /\ r_delays = r_max - 1
                   /\ r_raised = [kind |-> "ScraperError", op |-> r_name,
                                  cause |-> [kind |-> "retryable", call |-> r_max]]

C11_Witness ==
    /\ r_max = 3 /\ AlwaysRetryable
    /\ r_pc = "raised_exhausted" /\ r_calls = 3 /\ r_delays = 2

\* the operation fails retryably on invocations 1..k-1 and raises a failure
\* of a kind outside the retryable set on the k-th
NotRetryableAt(k) ==
    /\ r_sched[k] = "other"
    /\ \A j \in 1..(k - 1) : r_sched[j] = "retryable"

\* C12: a failure whose kind is not in the retryable set is propagated at
\* once and unwrapped: no further invocation, no delay and no increment of
\* the attempt counter follow it, on whichever attempt it happens.
C12_OtherPropagates ==
    \A k \in 1..MaxAttempts :
        (k <= r_max /\ NotRetryableAt(k))
            => /\ r_calls <= k /\ r_delays <= k - 1 /\ r_attempt <= k - 1
               /\ RetryEnded
                    => /\ r_pc = "raised_other"
                       /\ r_raised = [kind |-> "other", call |-> k]
                       /\ r_calls = k
                       /\ r_delays = k - 1
                       /\ r_attempt = k - 1

C12_Witness ==
    /\ r_max = 3 /\ NotRetryableAt(2)
    /\ r_pc = "raised_other" /\ r_calls = 2 /\ r_attempt = 1

\* every execution of the body of the current operation fails
BodyAlwaysFails == \A k \in 1..SessionAttempts : r_sched[k] # "ok"

\* C13: for each session operation whose underlying driver call fails on
\* every invocation, the body has been executed exactly 3 times when the
\* failure reaches my_task.
C13_ThreeAttemptsEach ==
    (s_pc = "except" /\ BodyAlwaysFails) => s_runs = SessionAttempts

\* C14: when my_task returns, close_driver has been invoked exactly once
\* (never more before), and no failure of an operation or of the close has
\* left my_task.
C14_ClosedOnceNothingEscapes ==
    /\ close_calls <= 1
    /\ ~s_escaped
    /\ s_pc = "done" => (close_calls = 1 /\ driver = "None")
    /\ close_calls = 1 => s_pc = "done"

C14_Witness ==
    /\ s_pc = "done" /\ s_failed /\ s_step = 3
    /\ close_calls = 1 /\ quit_calls = <<FALSE>>

\* C15: the operations are invoked in workflow order, each only after all
\* the preceding ones have returned, and once one has failed for good no
\* further operation is invoked and no body runs again: only the close.
C15_SessionStateMachine ==
    /\ [](/\ s_started = [j \in 1..Len(s_started) |-> j]
          /\ \A j \in 1..Len(s_started) : \A i \in 1..(j - 1) : i \in s_ok
          /\ s_failed => s_pc \in {"except", "finally", "done"})
    /\ [][s_failed => (/\ s_started' = s_started
                       /\ s_runs' = s_runs
                       /\ s_ok' = s_ok
                       /\ s_failed')]_vars

C15_Witness ==
    /\ s_pc = "done" /\ s_failed
    /\ s_started = <<1, 2, 3, 4>> /\ s_ok = {1, 2, 3}

\* C16: main reaches the downstream stage only when my_task has returned
\* and the worker thread is no longer alive, whatever the interleaving of
\* the two and whether the session workflow failed or not.
C16_DownstreamAfterBoth ==
    m_pc = "downstream" => (s_pc = "done" /\ thread # 0 /\ ~ThreadAlive)

C16_Witness ==
    /\ m_pc = "downstream" /\ s_pc = "done" /\ thread # 0 /\ ~ThreadAlive
    /\ s_failed /\ calls[thread].synced[1] = 1

\* C17: with a pool of b_pool threads and any number of submitted blocking
\* calls that each return, never more than b_pool calls are running, and
\* every submitted call eventually completes.
C17_PoolBoundAndCompletion ==
    /\ [](Cardinality(Running) <= b_pool)
    /\ \A c \in 1..MaxSubmits :
           (c \in DOMAIN b_call /\ b_call[c] = "queued")
               ~> (c \in DOMAIN b_call /\ b_call[c] = "done")

\* pool size 2 with 5 calls: two calls run at once while two wait and one is done
C17_Witness ==
    /\ b_pool = 2 /\ Len(b_call) = 5
    /\ Cardinality(Running) = 2
    /\ Cardinality({c \in DOMAIN b_call : b_call[c] = "queued"}) = 2
    /\ Cardinality({c \in DOMAIN b_call : b_call[c] = "done"}) = 1

\* every attempt of C has failed: C was opened max_retries times, never synced
CFailsEveryAttempt(t) ==
    /\ calls[t].Open[3] = SYNC_MAX_RETRIES
    /\ calls[t].synced[3] = 0
    /\ NoSetupFailure(t) /\ "Quit" \notin fails[t]

\* C18: in the run over [A (exists, succeeds), B (missing), C (exists, fails
\* 5 of 5 with max_retries = 5)], when the run has ended A has been opened,
\* saved and closed exactly once, B has never been opened, the handle has
\* been recreated exactly once and Quit has been invoked exactly twice.
C18_ScenarioABC ==
    \A t \in Threads :
        (RunEnded(t) /\ CFailsEveryAttempt(t)) =>
            /\ calls[t].Open[1] = 1 /\ calls[t].Save[1] = 1
            /\ calls[t].Close[1] = 1
            /\ calls[t].Open[2] = 0
            /\ dispatch_calls = 2 /\ Cardinality(AppsOf(t)) = 2
            /\ TotalQuits(t) = 2
            /\ \A h \in AppsOf(t) : apps[h].quits = 1

C18_Witness ==
    /\ 1 \in Threads /\ RunEnded(1) /\ CFailsEveryAttempt(1)
    /\ calls[1].synced[1] = 1 /\ TotalQuits(1) = 2
    /\ fails[1] = {"Open", "RefreshAll", "Save", "Close"}

\* C19: every handle constructed during a run has had Quit invoked on it
\* exactly once when the run ends (and never more than once before), for
\* every pattern of failing resources and for a run ended by stop(); so has
\* the handle held at the end of the iteration.
C19_EveryHandleQuitOnce ==
    /\ \A h \in 1..Len(apps) : apps[h].quits <= 1
    /\ \A t \in Threads :
           (RunEnded(t) /\ NoSetupFailure(t)) =>
               /\ \A h \in AppsOf(t) : apps[h].quits = 1
               /\ excel[t] \in AppsOf(t)
               /\ \A h \in AppsOf(t) : h <= excel[t]

C19_Witness ==
    /\ 1 \in Threads /\ RunEnded(1) /\ StopObserved(1)
    /\ Len(apps) = 2 /\ apps[1].quits = 1 /\ apps[2].quits = 1

\* C20: a Quit that raises is never propagated: after the Quit at a
\* resource's exhaustion the run goes on to construct a fresh handle, after
\* the Quit at the end of the run it finishes normally, the handler of
\* unexpected errors is entered only by a failed construction, and a run with
\* a failed Quit (not stopped, every construction succeeding) still opens
\* every existing resource.
C20_QuitFailureNotPropagated ==
    /\ [][\A t \in Threads :
             /\ pc[t] = "quit_exhausted"
                  => pc'[t] \in {"quit_exhausted", "recreate"}
             /\ pc[t] = "final_quit"
                  => pc'[t] \in {"final_quit", "finally"}]_vars
    /\ [](\A t \in Threads : pc[t] = "outer_except" => ~NoSetupFailure(t))
    /\ [](\A t \in Threads :
             (RunEnded(t) /\ "Quit" \in fails[t] /\ NoSetupFailure(t)
                /\ ~stop_event /\ max_retries >= 1) =>
               \A i \in Files : path_exists[i] => calls[t].Open[i] >= 1)

C20_Witness ==
    /\ 1 \in Threads /\ RunEnded(1)
    /\ "Quit" \in fails[1] /\ NoSetupFailure(1) /\ ~stop_event
    /\ Len(apps) = 2 /\ apps[1].live /\ apps[2].live
    /\ NumFiles = 2 /\ calls[1].synced[2] = 1

\* C21: the handle slot of the worker is reassigned only at the exhaustion
\* point (line 108, the attempts of the current resource used up): every
\* other step, a successful sync, a skipped resource, the stop check, a
\* failed attempt with attempts remaining, leaves it unchanged, so a retry
\* uses the handle of the first attempt.
C21_HandleReassignedOnlyAtExhaustion ==
    [][\A t \in Threads :
           (excel[t] # 0 /\ excel'[t] # excel[t]) =>
               (/\ pc[t] = "recreate" /\ retries[t] >= max_retries
                /\ idx'[t] = idx[t])]_vars

\* a retry of the second resource on the handle constructed first, after the
\* first resource was skipped or synced
C21_Witness ==
    /\ 1 \in Threads
    /\ pc[1] = "refresh" /\ idx[1] = 2 /\ retries[1] >= 1
    /\ calls[1].Open[2] >= 2 /\ excel[1] = 1 /\ Len(apps) = 1

AttemptKinds == {"Open", "RefreshAll", "Save", "Close"}

\* the attempts of resource i are used up and its last attempt is over
Abandoned(t, i) ==
    /\ calls[t].Open[i] >= max_retries
    /\ calls[t].synced[i] = 0
    /\ ~(idx[t] = i /\ pc[t] \in {"refresh", "sleep", "save", "close"})

\* once the counter has reached the maximum, nothing is attempted again
NoAttemptAfterMaximum ==
    /\ \A t \in Threads : \A i \in Files :
           Abandoned(t, i) =>
               \A op \in AttemptKinds : calls'[t][op][i] = calls[t][op][i]
    /\ (r_pc # "off" /\ r_attempt >= r_max) => r_calls' = r_calls

C23_Termination ==
    /\ ThreadAlive ~> (thread # 0 /\ ~ThreadAlive)
    /\ (cpc = "stop_join") ~> (cpc = "idle" /\ stop_returns >= 1)
    /\ (m_pc = "poll") ~> (m_pc = "downstream")

\* a worker with a failed attempt has ended and the stop() that joined it
\* has returned
C23_Witness ==
    /\ thread # 0 /\ ~ThreadAlive /\ fails[thread] # {}
    /\ cpc = "idle" /\ join_calls >= 1 /\ stop_returns >= 1

\* C24: resources are processed in list order: the position in the list
\* never goes back, a call on resource i (existence check, open, refresh,
\* save, close) happens only while i is the current resource, and while i is
\* current (its retries, its exhaustion teardown and recreation included)
\* nothing has been done on any later resource.
C24_ListOrder ==
    /\ [](\A t \in Threads : \A j \in Files :
              j > idx[t] => \A op \in CallKinds : calls[t][op][j] = 0)
    /\ [][\A t \in Threads :
             /\ idx'[t] >= idx[t]
             /\ \A i \in Files : \A op \in CallKinds :
                    calls'[t][op][i] # calls[t][op][i]
                        => (idx[t] = i /\ idx'[t] \in {i, i + 1})]_vars

\* the second resource is opened after the first was exhausted and the handle
\* recreated
C24_Witness ==
    /\ 1 \in Threads
    /\ idx[1] = 2 /\ pc[1] = "refresh" /\ calls[1].Open[2] = 1
    /\ max_retries = 2 /\ calls[1].Open[1] = 2 /\ calls[1].synced[1] = 0
    /\ Len(apps) = 2 /\ apps[1].quits = 1

FindEnded == f_pc \in {"returned", "raised_not_found", "raised_other"}

\* the lookups before the k-th all report the element as not found
NotFoundBefore(k) == \A j \in 1..(k - 1) : f_sched[j] = "NoSuchElement"

\* C25: when every lookup reports the element as not found, find_element
\* makes exactly timeout lookups with a wait after each and only then raises
\* the not-found ScraperError (it never raises it earlier); when the lookup
\* succeeds on try k <= timeout it returns that element after exactly k
\* lookups.
C25_PollsUntilTimeout ==
    /\ (FindEnded /\ NotFoundBefore(f_timeout + 1)) =>
           (/\ f_pc = "raised_not_found"
            /\ f_lookups = f_timeout /\ f_sleeps = f_timeout)
    /\ f_pc = "raised_not_found" => f_lookups = f_timeout
    /\ \A k \in 1..f_timeout :
           (FindEnded /\ NotFoundBefore(k) /\ f_sched[k] = "element") =>
               (/\ f_pc = "returned" /\ f_result = k
                /\ f_lookups = k /\ f_sleeps = k - 1)

C25_Witness ==
    /\ f_pc = "raised_not_found" /\ f_timeout = 3
    /\ NotFoundBefore(4) /\ f_lookups = 3 /\ f_sleeps = 3

\* C26: every settle wait between refresh and save lasts exactly the
\* refresh_interval the processor was constructed with, whatever that value.
C26_SettleWaitIsConfigured ==
    settle_slept # 0 => settle_slept = refresh_interval

\* C27: for every max_attempts (0 and negative values included) a call of a
\* wrapped operation runs the operation at least once and ends by returning
\* a value the operation returned or by raising; it never returns a value
\* without having run the operation.
C27_OperationRunAtLeastOnce ==
    RetryEnded =>
        /\ r_calls >= 1
        /\ r_pc # "returned_none"
        /\ r_pc = "returned" => r_result = OpResult(r_args, r_calls)

\* C28: under any sequence of start() and stop() calls on one processor at
\* most one worker thread is running at a time, so at most one handle is
\* live, and when a stop() has returned every thread that start() launched
\* has been waited for: none is still running.
C28_OneWorkerAtATime ==
    /\ Cardinality({t \in Threads : Alive(t)}) <= 1
    /\ Cardinality({t \in Threads : Alive(t) /\ LiveApps(t) # {}}) <= 1
    /\ (cpc = "idle" /\ prev_stop) => \A t \in Threads : ~Alive(t)
====
